---- MODULE Spec2Model ----
(***************************************************************************)
(* Model of ParserService (src/src/modules/parser/parser.service.ts): the  *)
(* harvest run parseCatalogs -> processCatalogs -> downloadCatalog, and    *)
(* the file naming function createSafeFileName.                           *)
(*                                                                         *)
(* Strings that the code transforms (titles, file names) are sequences of  *)
(* one-character strings, so that the transformations are computed.        *)
(***************************************************************************)
EXTENDS Integers, Sequences, FiniteSets, TLC

\* ---------------------------------------------------------------- bounds
MaxLen == 3        \* longest title given to createSafeFileName on its own
MaxStamp == 1      \* largest Date.now() value given to it on its own
MaxEntries == 2    \* most .card-catalogue elements on the rendered page
MaxRuns == 2       \* most calls of parseCatalogs
MaxSkew == 1       \* most milliseconds that pass while one run maps its records

VARIABLES
    title,      \* createSafeFileName: the argument of the call
    stamp,      \* createSafeFileName: what Date.now() returns during the call
    fileName,   \* createSafeFileName: the value returned (<<>> before the call)
    browser,    \* this.browser: "launching" (null, launch pending), "ready", "failed" (null)
    dirExists,  \* whether data/catalogs exists
    pages,      \* number of pages open in the browser
    runs,       \* number of calls of parseCatalogs made so far
    pc,         \* position of the current call of parseCatalogs
    dom,        \* the .card-catalogue elements of the rendered page
    catalogs,   \* the array `catalogs` of the current call
    fetch,      \* one entry per downloadCatalog call of the current run
    files,      \* the files under data/catalogs named by the current run
    snapshot,   \* data/catalogs_metadata.json
    result,     \* what the current call has delivered to its caller
    extracted,  \* history: the records as page.evaluate returned them
    writes,     \* history: writeFileSync calls on the snapshot in the current run
    before      \* history: the snapshot as it was when the current call began

namingVars == <<title, stamp, fileName>>
runVars == <<browser, dirExists, pages, runs, pc, dom, catalogs, fetch, files,
             snapshot, result, extracted, writes, before>>
vars == <<title, stamp, fileName, browser, dirExists, pages, runs, pc, dom,
          catalogs, fetch, files, snapshot, result, extracted, writes, before>>

\* ------------------------------------------------------------ characters
Lower == {"a", "b"}
Upper == {"A", "B"}
Digit == {"7"}
Alphabet == {"a", "B", "7", " ", "_"}

\* String.prototype.toLowerCase on one character
lowerChar(c) == CASE c = "A" -> "a" [] c = "B" -> "b" [] OTHER -> c

\* variant of toLowerCase: the title is taken as it is
toLowerCaseSkipped(s) == s

toLowerCase(s) == [i \in 1..Len(s) |-> lowerChar(s[i])]

\* whether /[a-z0-9]/i matches the character
isAlnum(c) == c \in Lower \cup Upper \cup Digit

\* .replace(/[^a-z0-9]/gi, '_')
replaceNonAlnum(s) == [i \in 1..Len(s) |-> IF isAlnum(s[i]) THEN s[i] ELSE "_"]

\* .replace(/_+/g, '_')
RECURSIVE collapseUnderscores(_)
collapseUnderscores(s) ==
    IF Len(s) <= 1 THEN s
    ELSE IF s[1] = "_" /\ s[2] = "_" THEN collapseUnderscores(Tail(s))
    ELSE <<s[1]>> \o collapseUnderscores(Tail(s))

\* String.prototype.trim: strips white space at both ends
isWhiteSpace(c) == c = " "

RECURSIVE trimStart(_)
trimStart(s) ==
    IF s # <<>> /\ isWhiteSpace(s[1]) THEN trimStart(Tail(s)) ELSE s

RECURSIVE trimEnd(_)
trimEnd(s) ==
    IF s # <<>> /\ isWhiteSpace(s[Len(s)]) THEN trimEnd(SubSeq(s, 1, Len(s) - 1)) ELSE s

trim(s) == trimEnd(trimStart(s))

\* the constant safeTitle of createSafeFileName
safeTitle(t) == trim(collapseUnderscores(replaceNonAlnum(toLowerCase(t))))

\* template literal `${Date.now()}`: decimal digits of a non-negative integer
DigitChar(d) ==
    CASE d = 0 -> "0" [] d = 1 -> "1" [] d = 2 -> "2" [] d = 3 -> "3" [] d = 4 -> "4"
      [] d = 5 -> "5" [] d = 6 -> "6" [] d = 7 -> "7" [] d = 8 -> "8" [] d = 9 -> "9"

RECURSIVE toDecimal(_)
toDecimal(n) ==
    IF n < 10 THEN <<DigitChar(n)>> ELSE toDecimal(n \div 10) \o <<DigitChar(n % 10)>>

Extension == <<".", "p", "d", "f">>

createSafeFileName(t, now) == safeTitle(t) \o <<"_">> \o toDecimal(now) \o Extension

\* -------------------------------------------------- createSafeFileName alone
Titles == UNION {[1..n -> Alphabet] : n \in 0..MaxLen}

IdleRun ==
    /\ browser = "launching" /\ dirExists = TRUE /\ pages = 0 /\ runs = 0
    /\ pc = "idle" /\ dom = <<>> /\ catalogs = <<>> /\ fetch = <<>> /\ files = {}
    /\ snapshot = [written |-> FALSE, data |-> <<>>]
    /\ result = [kind |-> "none", error |-> "", value |-> <<>>]
    /\ extracted = <<>> /\ writes = 0
    /\ before = [written |-> FALSE, data |-> <<>>]

InitNaming ==
    /\ title \in Titles
    /\ stamp \in 0..MaxStamp
    /\ fileName = <<>>
    /\ IdleRun

\* one call createSafeFileName(title) at time stamp
DeriveName ==
    /\ fileName = <<>>
    /\ fileName' = createSafeFileName(title, stamp)
    /\ UNCHANGED <<title, stamp>>
    /\ UNCHANGED runVars

NextNaming == DeriveName

SpecNaming == InitNaming /\ [][NextNaming]_vars

\* ------------------------------------------------------------ the page
\* One .card-catalogue element: the href of its a[href*=".pdf"] ("" when it has
\* none), the text of its h3 a, the datetime of the first and last time element.
Entry1 == [href |-> "u1", heading |-> <<"a", " ", "b">>, first |-> "2024-01-01", last |-> "2024-01-07"]
Entry2 == [href |-> "u2", heading |-> <<"A", "_", "b">>, first |-> "", last |-> ""]
Entry3 == [href |-> "", heading |-> <<"7">>, first |-> "2024-02-01", last |-> "2024-02-07"]
EntryPool == {Entry1, Entry2, Entry3}

Pages == UNION {[1..n -> EntryPool] : n \in 1..MaxEntries}

Unset == <<>>      \* localPath of a Catalog that has none

\* the callback of Array.from(catalogItems).map
toCatalog(item) ==
    [title |-> trim(item.heading), link |-> item.href,
     validFrom |-> item.first, validUntil |-> item.last, localPath |-> Unset]

hasLink(catalog) == catalog.link # ""

\* the function given to page.evaluate
evaluate(d) == SelectSeq([i \in 1..Len(d) |-> toCatalog(d[i])], hasLink)

\* JSON.stringify of the array: a property whose value is undefined is left out
stringifyOne(c) ==
    IF c.localPath = Unset
    THEN [title |-> c.title, link |-> c.link, validFrom |-> c.validFrom,
          validUntil |-> c.validUntil]
    ELSE c

stringify(cs) == [i \in 1..Len(cs) |-> stringifyOne(cs[i])]

StatusCodes == {200, 404}

\* ------------------------------------------------------------ the run
Init ==
    /\ title = <<>> /\ stamp = 0 /\ fileName = <<>>
    /\ browser = "launching"
    /\ dirExists \in BOOLEAN       \* createDirectories swallows a failed mkdirSync
    /\ pages = 0 /\ runs = 0
    /\ pc = "idle" /\ dom = <<>> /\ catalogs = <<>> /\ fetch = <<>> /\ files = {}
    /\ snapshot = [written |-> FALSE, data |-> <<>>]
    /\ result = [kind |-> "none", error |-> "", value |-> <<>>]
    /\ extracted = <<>> /\ writes = 0
    /\ before = [written |-> FALSE, data |-> <<>>]

Threw(e) == [kind |-> "threw", error |-> e, value |-> <<>>]
Returned(v) == [kind |-> "returned", error |-> "", value |-> v]
NoResult == [kind |-> "none", error |-> "", value |-> <<>>]

\* initBrowser: puppeteer.launch resolves
LaunchOk ==
    /\ browser = "launching"
    /\ browser' = "ready"
    /\ UNCHANGED <<dirExists, pages, runs, pc, dom, catalogs, fetch, files,
                   snapshot, result, extracted, writes, before>>
    /\ UNCHANGED namingVars

\* initBrowser: puppeteer.launch rejects, this.browser stays null
LaunchFail ==
    /\ browser = "launching"
    /\ browser' = "failed"
    /\ UNCHANGED <<dirExists, pages, runs, pc, dom, catalogs, fetch, files,
                   snapshot, result, extracted, writes, before>>
    /\ UNCHANGED namingVars

\* variant of StartRun: the browser check passes while the launch is pending
StartRunWhileLaunching ==
    /\ pc = "idle"
    /\ runs < MaxRuns
    /\ runs' = runs + 1
    /\ dom' = <<>> /\ catalogs' = <<>> /\ fetch' = <<>> /\ files' = {}
    /\ extracted' = <<>> /\ writes' = 0
    /\ before' = snapshot
    /\ IF browser = "failed"
       THEN /\ result' = Threw("Browser not initialized")
            /\ UNCHANGED <<pc, pages>>
       ELSE /\ result' = NoResult
            /\ pc' = "goto"
            /\ pages' = pages + 1
    /\ UNCHANGED <<browser, dirExists, snapshot>>
    /\ UNCHANGED namingVars

\* parseCatalogs is called (the previous call has ended): the browser check and
\* browser.newPage. A fetch of an ended run that is still in flight touches only
\* its own file and its own record; it is followed no further once the next call
\* begins.
StartRun ==
    /\ pc = "idle"
    /\ runs < MaxRuns
    /\ runs' = runs + 1
    /\ dom' = <<>> /\ catalogs' = <<>> /\ fetch' = <<>> /\ files' = {}
    /\ extracted' = <<>> /\ writes' = 0
    /\ before' = snapshot
    /\ IF browser # "ready"
       THEN /\ result' = Threw("Browser not initialized")
            /\ UNCHANGED <<pc, pages>>
       ELSE /\ result' = NoResult
            /\ pc' = "goto"
            /\ pages' = pages + 1
    /\ UNCHANGED <<browser, dirExists, snapshot>>
    /\ UNCHANGED namingVars

\* page.goto resolves
GotoOk ==
    /\ pc = "goto"
    /\ pc' = "wait"
    /\ UNCHANGED <<browser, dirExists, pages, runs, dom, catalogs, fetch, files,
                   snapshot, result, extracted, writes, before>>
    /\ UNCHANGED namingVars

\* variant of GotoFail: an empty snapshot is written before the error is passed on
GotoFailWritesEmpty ==
    /\ pc = "goto"
    /\ \E e \in {"NavigationError", "TimeoutError"} : result' = Threw(e)
    /\ pc' = "idle"
    /\ snapshot' = [written |-> TRUE, data |-> <<>>]
    /\ writes' = writes + 1
    /\ UNCHANGED <<browser, dirExists, pages, runs, dom, catalogs, fetch, files,
                   extracted, before>>
    /\ UNCHANGED namingVars

\* page.goto rejects: the page cannot be reached or does not load in 60 s
GotoFail ==
    /\ pc = "goto"
    /\ \E e \in {"NavigationError", "TimeoutError"} : result' = Threw(e)
    /\ pc' = "idle"
    /\ UNCHANGED <<browser, dirExists, pages, runs, dom, catalogs, fetch, files,
                   snapshot, extracted, writes, before>>
    /\ UNCHANGED namingVars

\* page.waitForSelector resolves: the page shows at least one .card-catalogue
WaitOk ==
    /\ pc = "wait"
    /\ \E d \in Pages : dom' = d
    /\ pc' = "evaluate"
    /\ UNCHANGED <<browser, dirExists, pages, runs, catalogs, fetch, files,
                   snapshot, result, extracted, writes, before>>
    /\ UNCHANGED namingVars

\* page.waitForSelector rejects after 60 s
WaitTimeout ==
    /\ pc = "wait"
    /\ result' = Threw("TimeoutError")
    /\ pc' = "idle"
    /\ UNCHANGED <<browser, dirExists, pages, runs, dom, catalogs, fetch, files,
                   snapshot, extracted, writes, before>>
    /\ UNCHANGED namingVars

\* page.evaluate
Evaluate ==
    /\ pc = "evaluate"
    /\ catalogs' = evaluate(dom)
    /\ extracted' = evaluate(dom)
    /\ pc' = "close"
    /\ UNCHANGED <<browser, dirExists, pages, runs, dom, fetch, files,
                   snapshot, result, writes, before>>
    /\ UNCHANGED namingVars

\* page.close: the page and its document are gone
ClosePage ==
    /\ pc = "close"
    /\ pages' = pages - 1
    /\ dom' = <<>>
    /\ pc' = "process"
    /\ UNCHANGED <<browser, dirExists, runs, catalogs, fetch, files,
                   snapshot, result, extracted, writes, before>>
    /\ UNCHANGED namingVars

\* ------------------------------------------------------------ the fetches
\* Date.now() while the current run maps its records: runs are apart by more
\* than the time one map takes, off is the time since the first record's call
DateNow(off) == runs * (MaxSkew + 1) + off

\* downloadCatalog up to the return of its promise. dirOk: data/catalogs exists
\* or mkdirSync creates it. An entry of fetch is the state of that promise (st),
\* what it was rejected with (err) and the path of the write stream it created
\* (<<>> when it created none) and the number of its https.get calls (gets).
\* fs.createWriteStream creates the file before any event of the request
\* arrives.
downloadCatalog(catalog, now, dirOk) ==
    IF catalog.link = "" THEN [path |-> <<>>, st |-> "resolved", err |-> "", gets |-> 0]
    ELSE IF ~dirOk THEN [path |-> <<>>, st |-> "rejected", err |-> "mkdir", gets |-> 0]
    ELSE [path |-> createSafeFileName(catalog.title, now), st |-> "inflight", err |-> "",
          gets |-> 1]

\* variant of promiseAll: fulfilled as soon as one promise is (Promise.any)
promiseAny(f) ==
    IF \E i \in 1..Len(f) : f[i].st = "resolved" THEN "fulfilled"
    ELSE IF f # <<>> /\ \A i \in 1..Len(f) : f[i].st = "rejected" THEN "rejected"
    ELSE IF f = <<>> THEN "fulfilled"
    ELSE "pending"

\* variant of promiseAll: the promise is not awaited
promiseNotAwaited(f) == "fulfilled"

\* variant of promiseAll: fulfilled once every promise has settled (Promise.allSettled)
promiseAllSettled(f) ==
    IF \A i \in 1..Len(f) : f[i].st \in {"resolved", "rejected"} THEN "fulfilled"
    ELSE "pending"

\* Promise.all over the promises of fetch
promiseAll(f) ==
    IF \E i \in 1..Len(f) : f[i].st = "rejected" THEN "rejected"
    ELSE IF \A i \in 1..Len(f) : f[i].st = "resolved" THEN "fulfilled"
    ELSE "pending"

\* variant of writeFileSync: the text is added to what the file held
writeFileSyncAppend(old, text) == [written |-> TRUE, data |-> old.data \o text]

\* fs.writeFileSync(metadataPath, text): the file holds exactly text
writeFileSync(old, text) == [written |-> TRUE, data |-> text]

\* processCatalogs after `await Promise.all` and the return of parseCatalogs,
\* run as soon as a promise settles; f and c are fetch and catalogs after the
\* event. Nothing is awaiting once the call has ended (pc = "idle").
Continue(f, c) ==
    IF pc = "idle" THEN UNCHANGED <<pc, result, snapshot, writes>>
    ELSE CASE promiseAll(f) = "rejected" ->
                /\ pc' = "idle"
                /\ result' = Threw("DownloadError")
                /\ UNCHANGED <<snapshot, writes>>
           [] promiseAll(f) = "fulfilled" ->
                /\ pc' = "idle"
                /\ writes' = writes + 1
                /\ \/ /\ snapshot' = writeFileSync(snapshot, stringify(c))
                      /\ result' = Returned(c)
                   \/ /\ result' = Threw("PersistError")     \* writeFileSync throws
                      /\ UNCHANGED snapshot
           [] OTHER ->
                /\ pc' = "fetching"
                /\ UNCHANGED <<result, snapshot, writes>>

InFlight(i) == fetch[i].st \in {"inflight", "piping"}

Offsets(n) ==
    {o \in [1..n -> 0..MaxSkew] :
        /\ n >= 1 => o[1] = 0
        /\ \A i \in 1..(n - 1) : o[i] <= o[i + 1]}

\* processCatalogs: catalogs.map(catalog => this.downloadCatalog(catalog)), every
\* call running to its return before the next. While data/catalogs is missing,
\* mkdirSync throws for the records before firstOk and succeeds at firstOk.
ProcessCatalogs ==
    /\ pc = "process"
    /\ LET n == Len(catalogs) IN
       \E o \in Offsets(n) :
       \E firstOk \in IF dirExists \/ n = 0 THEN {1} ELSE 1..(n + 1) :
          LET f == [i \in 1..n |->
                      downloadCatalog(catalogs[i], DateNow(o[i]), dirExists \/ i >= firstOk)]
          IN /\ fetch' = f
             /\ files' = files \cup {f[i].path : i \in {j \in 1..n : f[j].st = "inflight"}}
             /\ dirExists' = (dirExists \/ firstOk <= n)
             /\ Continue(f, catalogs)
    /\ UNCHANGED <<browser, pages, runs, dom, catalogs, extracted, before>>
    /\ UNCHANGED namingVars

settle(f, i, s, e) == [f EXCEPT ![i].st = s, ![i].err = e]

\* variant of onFinish: the path is logged but not stored in the record
onFinishNoPath(c, i, path) == c

\* variant of onFinish: the finished record is moved to the end of the list
onFinishMoveLast(c, i, path) ==
    SubSeq(c, 1, i - 1) \o SubSeq(c, i + 1, Len(c)) \o <<[c[i] EXCEPT !.localPath = path]>>

\* variant of onFinish: the path is stored in every record of the list
onFinishAll(c, i, path) == [j \in 1..Len(c) |-> [c[j] EXCEPT !.localPath = path]]

\* the body of the 'finish' handler: catalog.localPath = filePath
onFinish(c, i, path) == [c EXCEPT ![i].localPath = path]

\* variant of Response: a status other than 200 is answered by one more request
ResponseRetry(i) ==
    /\ i \in 1..Len(fetch)
    /\ fetch[i].st = "inflight"
    /\ \E status \in StatusCodes :
         LET f == IF status # 200 /\ fetch[i].gets < 2
                  THEN [fetch EXCEPT ![i].gets = @ + 1]
                  ELSE IF status # 200 THEN settle(fetch, i, "rejected", "status")
                  ELSE settle(fetch, i, "piping", "")
         IN /\ fetch' = f
            /\ Continue(f, catalogs)
    /\ UNCHANGED <<browser, dirExists, pages, runs, dom, catalogs, files, extracted, before>>
    /\ UNCHANGED namingVars

\* the callback of https.get: the response arrives
Response(i) ==
    /\ i \in 1..Len(fetch)
    /\ fetch[i].st = "inflight"
    /\ \E status \in StatusCodes :
         LET f == IF status # 200 THEN settle(fetch, i, "rejected", "status")
                  ELSE settle(fetch, i, "piping", "")
         IN /\ fetch' = f
            /\ Continue(f, catalogs)
    /\ UNCHANGED <<browser, dirExists, pages, runs, dom, catalogs, files, extracted, before>>
    /\ UNCHANGED namingVars

\* the 'finish' handler of the write stream
FileFinish(i) ==
    /\ i \in 1..Len(fetch)
    /\ fetch[i].st = "piping"
    /\ LET f == settle(fetch, i, "resolved", "")
           c == onFinish(catalogs, i, fetch[i].path)
       IN /\ fetch' = f
          /\ catalogs' = c
          /\ Continue(f, c)
    /\ UNCHANGED <<browser, dirExists, pages, runs, dom, files, extracted, before>>
    /\ UNCHANGED namingVars

\* variant of FileError: the promise is rejected, the file is left
FileErrorNoUnlink(i) ==
    /\ i \in 1..Len(fetch)
    /\ fetch[i].st = "piping"
    /\ LET f == settle(fetch, i, "rejected", "stream")
       IN /\ fetch' = f
          /\ Continue(f, catalogs)
    /\ UNCHANGED <<browser, dirExists, pages, runs, dom, catalogs, files, extracted, before>>
    /\ UNCHANGED namingVars

\* the 'error' handler of the write stream
FileError(i) ==
    /\ i \in 1..Len(fetch)
    /\ fetch[i].st = "piping"
    /\ LET f == settle(fetch, i, "rejected", "stream")
       IN /\ fetch' = f
          /\ files' = files \ {fetch[i].path}
          /\ Continue(f, catalogs)
    /\ UNCHANGED <<browser, dirExists, pages, runs, dom, catalogs, extracted, before>>
    /\ UNCHANGED namingVars

\* variant of RequestError: the promise is rejected, the file is left
RequestErrorNoUnlink(i) ==
    /\ i \in 1..Len(fetch)
    /\ fetch[i].st \in {"inflight", "piping"}
    /\ LET f == settle(fetch, i, "rejected",
                       IF fetch[i].st = "piping" THEN "reset" ELSE "request")
       IN /\ fetch' = f
          /\ Continue(f, catalogs)
    /\ UNCHANGED <<browser, dirExists, pages, runs, dom, catalogs, files, extracted, before>>
    /\ UNCHANGED namingVars

\* the 'error' handler of the request: no connection ("request"), or the
\* connection fails while the response is being piped ("reset")
RequestError(i) ==
    /\ i \in 1..Len(fetch)
    /\ fetch[i].st \in {"inflight", "piping"}
    /\ LET f == settle(fetch, i, "rejected",
                       IF fetch[i].st = "piping" THEN "reset" ELSE "request")
       IN /\ fetch' = f
          /\ files' = files \ {fetch[i].path}
          /\ Continue(f, catalogs)
    /\ UNCHANGED <<browser, dirExists, pages, runs, dom, catalogs, extracted, before>>
    /\ UNCHANGED namingVars

Next ==
    \/ LaunchOk
    \/ LaunchFail
    \/ StartRun
    \/ GotoOk
    \/ GotoFail
    \/ WaitOk
    \/ WaitTimeout
    \/ Evaluate
    \/ ClosePage
    \/ ProcessCatalogs
    \/ \E i \in 1..MaxEntries : Response(i)
    \/ \E i \in 1..MaxEntries : FileFinish(i)
    \/ \E i \in 1..MaxEntries : FileError(i)
    \/ \E i \in 1..MaxEntries : RequestError(i)

Spec == Init /\ [][Next]_vars

\* ------------------------------------------------------------ properties
HasLocalPath(r) == "localPath" \in DOMAIN r

AllSettled == \A i \in 1..Len(fetch) : ~InFlight(i)

Failed == {i \in 1..Len(fetch) : fetch[i].st = "rejected"}

Core(r) == [title |-> r.title, link |-> r.link, validFrom |-> r.validFrom,
            validUntil |-> r.validUntil]

Cores(rs) == [i \in 1..Len(rs) |-> Core(rs[i])]

ExtractionErrors == {"NavigationError", "TimeoutError"}

\* C1: once every fetch of a run with M >= 1 extracted records has settled, F of
\* them rejected by the remote side or the transfer, and the snapshot write
\* itself did not fail, the call has returned, the snapshot holds all M records
\* and exactly M - F of them have localPath.
FailureIsolation ==
    (/\ pc = "idle"
     /\ Len(extracted) >= 1
     /\ Len(fetch) = Len(extracted)
     /\ AllSettled
     /\ \A i \in 1..Len(fetch) : fetch[i].err # "mkdir"
     /\ result.error # "PersistError")
    => (/\ result.kind = "returned"
        /\ writes = 1
        /\ Len(snapshot.data) = Len(extracted)
        /\ Cardinality({i \in 1..Len(snapshot.data) : HasLocalPath(snapshot.data[i])})
             = Len(extracted) - Cardinality(Failed))

\* C2: a fetch rejected for a response status other than 200 leaves no file at
\* its target path.
NoFileAfterBadStatus ==
    \A i \in 1..Len(fetch) : fetch[i].err = "status" => fetch[i].path \notin files

\* C3: in the snapshot a run has written, a record with a link has localPath
\* exactly when its fetch of that run resolved.
SnapshotPathIffFetched ==
    (writes = 1 /\ result.kind = "returned")
    => (/\ Len(snapshot.data) = Len(fetch)
        /\ \A i \in 1..Len(snapshot.data) :
              snapshot.data[i].link # ""
              => (HasLocalPath(snapshot.data[i]) <=> fetch[i].st = "resolved"))

SnapshotWithPaths ==
    /\ writes = 1 /\ result.kind = "returned"
    /\ Len(snapshot.data) >= 1
    /\ \A i \in 1..Len(snapshot.data) : HasLocalPath(snapshot.data[i])

\* C4: a call whose extraction failed (navigation or time-out) has thrown to
\* its caller, has started no fetch and has not written the snapshot.
ExtractionFailureAborts ==
    result.error \in ExtractionErrors
    => (/\ result.kind = "threw"
        /\ pc = "idle"
        /\ fetch = <<>>
        /\ writes = 0
        /\ snapshot = before)

ExtractionFailedAfterSnapshot ==
    /\ result.error \in ExtractionErrors
    /\ before.written
    /\ Len(before.data) >= 1

\* C5: a call that has ended toward its caller has no fetch in flight.
RunWaitsForFetches ==
    pc = "idle" => AllSettled

\* C6: the list written to the snapshot and the list returned hold the records
\* in the order in which page.evaluate produced them.
OrderPreserved ==
    result.kind = "returned"
    => (/\ Cores(snapshot.data) = Cores(extracted)
        /\ Cores(result.value) = Cores(extracted))

TwoDifferentRecordsReturned ==
    /\ result.kind = "returned"
    /\ Len(extracted) >= 2
    /\ Core(extracted[1]) # Core(extracted[2])

\* C7: the write streams of one run have pairwise distinct paths.
DistinctTargetPaths ==
    \A i, j \in 1..Len(fetch) :
        (i # j /\ fetch[i].path # <<>> /\ fetch[j].path # <<>>)
        => fetch[i].path # fetch[j].path

\* C8: when no call is running, no page is open.
NoPageLeft ==
    pc = "idle" => pages = 0

RECURSIVE Words(_, _)
Words(t, word) ==
    IF t = <<>> THEN (IF word = <<>> THEN <<>> ELSE <<word>>)
    ELSE IF isAlnum(t[1]) THEN Words(Tail(t), Append(word, lowerChar(t[1])))
    ELSE (IF word = <<>> THEN <<>> ELSE <<word>>) \o Words(Tail(t), <<>>)

\* what precedes "_<stamp>.pdf" in a file name
prefixOf(name, now) ==
    SubSeq(name, 1, Len(name) - Len(toDecimal(now)) - 1 - Len(Extension))

\* C10: titles that have the same words (they differ only in characters other
\* than letters and digits, and in case) get the same prefix.
SameWordsSamePrefix ==
    fileName # <<>>
    => \A t \in Titles :
          Words(t, <<>>) = Words(title, <<>>)
          => prefixOf(createSafeFileName(t, stamp), stamp) = prefixOf(fileName, stamp)

\* the characters [a-z0-9_]
SafeChars == Lower \cup Digit \cup {DigitChar(d) : d \in 0..9} \cup {"_"}

\* C11: the file name of every title is not empty, ends in ".pdf" and has only
\* characters of [a-z0-9_] before that extension.
SafeFileName ==
    fileName # <<>>
    => LET stem == Len(fileName) - Len(Extension) IN
       /\ stem >= 1
       /\ SubSeq(fileName, stem + 1, Len(fileName)) = Extension
       /\ \A i \in 1..stem : fileName[i] \in SafeChars

NameOfTitleWithoutWords ==
    /\ fileName # <<>>
    /\ Len(title) >= 2
    /\ \A i \in 1..Len(title) : ~isAlnum(title[i])

\* C12: when the snapshot write has failed, the call has thrown, no fetch of the
\* run is still in flight, and the file of every fetch that resolved is on disk.
PersistErrorAfterFetches ==
    result.error = "PersistError"
    => (/\ result.kind = "threw"
        /\ AllSettled
        /\ \A i \in 1..Len(fetch) :
              fetch[i].st = "resolved" => fetch[i].path \in files)

PersistErrorWithDownloads ==
    /\ result.error = "PersistError"
    /\ Len(fetch) >= 2
    /\ \A i \in 1..Len(fetch) : fetch[i].st = "resolved" /\ fetch[i].path \in files

\* the orchestrator phase of a control position
Phase(p) ==
    CASE p = "idle" -> "Idle"
      [] p \in {"goto", "wait", "evaluate", "close"} -> "Extracting"
      [] p \in {"process", "fetching"} -> "Fetching"

\* a call leaves Idle for Extracting, Extracting for Fetching, and ends from
\* either; writing the snapshot (Finalized) is the step that ends Fetching
PhaseOrder ==
    {<<"Idle", "Idle">>, <<"Idle", "Extracting">>,
     <<"Extracting", "Extracting">>, <<"Extracting", "Fetching">>, <<"Extracting", "Idle">>,
     <<"Fetching", "Fetching">>, <<"Fetching", "Idle">>}

\* C13: every step follows the phase order; a step that writes the snapshot is
\* the first write of its run, is taken in the Fetching phase after extraction,
\* and leaves no fetch of the run in flight.
PhasesInOrder ==
    [][/\ <<Phase(pc), Phase(pc')>> \in PhaseOrder
       /\ writes' # writes /\ runs' = runs
          => (/\ writes = 0 /\ writes' = 1
              /\ Phase(pc) = "Fetching" /\ pc' = "idle"
              /\ Len(fetch') = Len(extracted)
              /\ \A i \in 1..Len(fetch') : fetch'[i].st \notin {"inflight", "piping"})]_vars

SnapshotWrittenAfterFetches ==
    /\ writes = 1
    /\ snapshot.written
    /\ Len(fetch) >= 2

TransportErrorLeavesNoFile ==
    \A i \in 1..Len(fetch) :
        fetch[i].err = "request"
        => (/\ fetch[i].st = "rejected"
            /\ catalogs[i].localPath = Unset
            /\ fetch[i].path \notin files)

TransportErrorHappened ==
    \E i \in 1..Len(fetch) : fetch[i].err = "request" /\ fetch[i].path # <<>>

\* processCatalogs has mapped the records of the current run
Mapped ==
    \/ pc = "fetching"
    \/ pc = "idle" /\ (result.kind = "returned" \/ result.error \in {"DownloadError", "PersistError"})

\* C16 as stated: once the records are mapped, every extracted record has one
\* downloadCatalog call, and each call has made exactly one request.
OneAttemptPerRecord ==
    Mapped
    => (/\ Len(fetch) = Len(extracted)
        /\ \A i \in 1..Len(fetch) : fetch[i].gets = 1)

\* C16 as amended: every extracted record has one downloadCatalog call, whatever
\* happened to the others; the call has made exactly one request, or none when
\* its own mkdirSync threw.
OneCallPerRecord ==
    Mapped
    => (/\ Len(fetch) = Len(extracted)
        /\ \A i \in 1..Len(fetch) :
              fetch[i].gets = (IF fetch[i].err = "mkdir" THEN 0 ELSE 1))

AttemptAfterOtherFailed ==
    /\ Mapped
    /\ Len(fetch) >= 2
    /\ fetch[1].err = "mkdir"
    /\ fetch[2].gets = 1 /\ fetch[2].st = "resolved"

\* C17: within a run, after extraction, a step that changes the record list is
\* the finish of one fetch: it sets the localPath of that fetch's record, which
\* had none, to the fetch's path, changes no other field and no other record,
\* and is taken before the snapshot is written.
FetchSetsOwnLocalPath ==
    [][(runs' = runs /\ pc # "evaluate" /\ catalogs' # catalogs)
       => (/\ Len(catalogs') = Len(catalogs)
           /\ Cores(catalogs') = Cores(catalogs)
           /\ writes = 0
           /\ \E i \in 1..Len(catalogs) :
                 /\ fetch[i].st = "piping" /\ fetch'[i].st = "resolved"
                 /\ catalogs[i].localPath = Unset
                 /\ catalogs'[i].localPath = fetch[i].path
                 /\ \A j \in 1..Len(catalogs) : j # i => catalogs'[j] = catalogs[j])]_vars

OneOfTwoRecordsFetched ==
    /\ Len(catalogs) >= 2
    /\ catalogs[1].localPath = Unset
    /\ catalogs[2].localPath # Unset

\* C18: a call made while this.browser is null (launch pending or failed) ends
\* at once with the error "Browser not initialized": it opens no page, starts no
\* fetch and leaves the snapshot as it was.
NoBrowserNoRun ==
    [][(runs' = runs + 1 /\ browser # "ready")
       => (/\ result' = Threw("Browser not initialized")
           /\ pc' = "idle"
           /\ pages' = pages
           /\ fetch' = <<>>
           /\ writes' = 0
           /\ snapshot' = snapshot)]_vars

CalledWhileLaunching ==
    /\ result.error = "Browser not initialized"
    /\ browser = "launching"

\* C19: a run writes the snapshot only when every fetch of it has resolved; every
\* record of a snapshot on disk has localPath; a run whose extraction or whose
\* fetch failed leaves the snapshot as it was before the run.
SnapshotOnlyWhenAllFetched ==
    /\ writes >= 1
       => (/\ Len(fetch) = Len(extracted)
           /\ \A i \in 1..Len(fetch) : fetch[i].st = "resolved")
    /\ \A i \in 1..Len(snapshot.data) : HasLocalPath(snapshot.data[i])
    /\ result.error \in ExtractionErrors \cup {"DownloadError"}
       => (writes = 0 /\ snapshot = before)

FetchFailedAfterSnapshot ==
    /\ result.error = "DownloadError"
    /\ before.written
    /\ Len(before.data) >= 1
    /\ \E i \in 1..Len(fetch) : fetch[i].st = "resolved"

====
